---- MODULE Spec2Model ----
(***************************************************************************)
(* tap-freshdesk: the incremental sync engine of tap_freshdesk/__init__.py *)
(* (gen_request, get_start, sync_tickets, sync_time_filtered, do_sync).    *)
(*                                                                         *)
(* The program is one sequential thread.  Its state is the module global   *)
(* State (a dict), the last state document written by singer.write_state   *)
(* (persisted), the records written by singer.write_record (emitted), the  *)
(* generator frames of gen_request, and the position of the function that  *)
(* consumes them.  Timestamps are integers (the code compares them as      *)
(* opaque ordered strings); a row is [id, updated_at].                     *)
(***************************************************************************)
EXTENDS Integers, Sequences, FiniteSets, TLC

\* ---------------------------------------------------------------- constants
PER_PAGE == 100

\* line 41: max_tries=5
max_tries == 5

\* CONFIG['start_date'], the watermark of a stream that has none
START_DATE == 1

\* ------------------------------------------------------------------- bounds
\* a listing holds full * PER_PAGE + rest rows, full <= MaxFullPages, rest <= MaxRest
MaxFullPages == 2
MaxRest == 2
\* updated_at of row i is base + (i % Period), base <= MaxBase
MaxBase == 1
Period == 3
\* the tickets listing holds at most MaxTickets tickets, or a full page and
\* at most MaxTickets more
MaxTickets == 2

\* the Retry-After responses one call of request is given
MaxThrottles == 2

VARIABLES
    server,       \* upstream: [rows, base, tickets], the listings it serves
    State,        \* the global dict STATE (TLA+ reserves that word)
    persisted,    \* the last document written by singer.write_state
    loaded,       \* the document the running process was started with
    schemas,      \* the streams announced by singer.write_schema, in order
    emitted,      \* the records written by singer.write_record, in order
    reqs,         \* the requests of the running process: <<url, page>>
    pc,           \* position of the function consuming the generators
    active,       \* 0: the function runs; k: generator k runs (inside next())
    gen,          \* generator frames of gen_request: 1 outer, 2 nested
    row,          \* the row the for loop over generator 1 is handling
    subrow,       \* the row the for loop over generator 2 is handling
    entity,       \* the stream being synced
    start,        \* local `start` of sync_tickets / sync_time_filtered
    last_updated, \* local `last_updated` of sync_tickets
    exc,          \* the exception that ended the run: [type, status]
    restarted,    \* the process was killed and started again
    crashAfter,   \* the full page whose rows had all been yielded at the kill (0: none)
    cursorWritten, \* the kill came after that page's cursor write (lines 84-86)
    rq            \* one call of request(url, params): see the request section

vars == <<server, State, persisted, loaded, schemas, emitted, reqs, pc, active, gen, row, subrow,
          entity, start, last_updated, exc, restarted, crashAfter, cursorWritten, rq>>

\* ------------------------------------------------------------ dict helpers
EmptyDict == [k \in {} |-> 0]

Has(d, k) == k \in DOMAIN d

\* dict.get(k, default)
Get(d, k, default) == IF k \in DOMAIN d THEN d[k] ELSE default

\* d[k] = v
Put(d, k, v) == [x \in DOMAIN d \cup {k} |-> IF x = k THEN v ELSE d[x]]

\* d.pop(k, None)
Pop(d, k) == [x \in DOMAIN d \ {k} |-> d[x]]

Max(a, b) == IF a >= b THEN a ELSE b

Min(a, b) == IF a <= b THEN a ELSE b

\* ----------------------------------------------------------------- streams
STREAMS == <<"tickets", "agents", "roles", "groups", "companies">>

StreamNames == {STREAMS[i] : i \in 1..Len(STREAMS)}

SimpleStreams == StreamNames \ {"tickets"}

SubEntities == {"conversations", "satisfaction_ratings", "time_entries"}

\* get_url(endpoint, **kwargs): the url as <<endpoint, id, entity>>
get_url(endpoint, id, ent) == <<endpoint, id, ent>>

\* ----------------------------------------------------------------- upstream
\* a listing of n rows; row i has id i and updated_at base + (i % Period)
Listing(n, base) == [i \in 1..n |-> [id |-> i, updated_at |-> base + (i % Period)]]

\* the tickets listing is served ascending by updated_at (order_by, order_type)
TicketListing(n, base) == [i \in 1..n |-> [id |-> i, updated_at |-> base + i]]

ListingSizes == {f * PER_PAGE + r : f \in 0..MaxFullPages, r \in 0..MaxRest}

\* the sizes of the tickets listing: less than a page, or a page and some more
TicketCounts == (0..MaxTickets) \cup {PER_PAGE + t : t \in 1..(MaxTickets - 1)}

\* the listing behind a url: the tickets, or the rows of any other endpoint
Served(url) ==
    IF url = get_url("tickets", 0, "")
    THEN TicketListing(server.tickets, server.base)
    ELSE Listing(server.rows, server.base)

\* the rows of a listing the server selects for the params: updated_since filters
Selected(url, params) ==
    IF Has(params, "updated_since")
    THEN SelectSeq(Served(url), LAMBDA r : r.updated_at >= params["updated_since"])
    ELSE Served(url)

\* the body of GET url?page=p&per_page=n: page p of the selected rows
Response(url, params) ==
    LET rows == Selected(url, params)
        lo == (params["page"] - 1) * params["per_page"] + 1
        hi == Min(params["page"] * params["per_page"], Len(rows))
    IN  SubSeq(rows, lo, hi)

\* what request(url, params) can do: return the body (200) or raise an
\* HTTPError with the status (a 4xx at once, a 5xx once the retries are spent)
Statuses == {200, 403, 500}

\* no call of request is modelled step by step
NoCall == [pc |-> "none"]

\* ------------------------------------------------------------- gen_request
NoGen == [pc |-> "none", url |-> get_url("", 0, ""), params |-> EmptyDict,
          page |-> 0, data |-> <<>>, i |-> 0]

\* gen_request(url, params) called: a generator object; its body has not run
NewGen(url, params) == [NoGen EXCEPT !.pc = "new", !.url = url, !.params = params]

NoRow == [id |-> 0, updated_at |-> 0]

NoExc == [type |-> "none", status |-> 0]

\* an exception nobody catches ends the run
Abort(type, status) ==
    /\ pc' = "aborted"
    /\ exc' = [type |-> type, status |-> status]
    /\ active' = 0

\* GenStart with line 76 as page = STATE.get('page', 2)
GenStartSecondPage(k) ==
    /\ active = k
    /\ gen[k].pc = "new"
    /\ gen' = [gen EXCEPT ![k].pc = "request",
                          ![k].params = Put(gen[k].params, "per_page", PER_PAGE),
                          ![k].page = Get(State, "page", 2)]
    /\ UNCHANGED <<server, rq, State, persisted, loaded, schemas, emitted, reqs, pc, active, row, subrow,
                   entity, start, last_updated, exc, restarted, crashAfter, cursorWritten>>

\* lines 74-76: the body starts at the first next(): per_page, the page to start at
GenStart(k) ==
    /\ active = k
    /\ gen[k].pc = "new"
    /\ gen' = [gen EXCEPT ![k].pc = "request",
                          ![k].params = Put(gen[k].params, "per_page", PER_PAGE),
                          ![k].page = Get(State, "page", 1)]
    /\ UNCHANGED <<server, rq, State, persisted, loaded, schemas, emitted, reqs, pc, active, row, subrow,
                   entity, start, last_updated, exc, restarted, crashAfter, cursorWritten>>

\* lines 78-79: params['page'] = page; data = request(url, params).json()
GenRequest(k) ==
    /\ active = k
    /\ gen[k].pc = "request"
    /\ LET params == Put(gen[k].params, "page", gen[k].page) IN
       /\ reqs' = Append(reqs, <<gen[k].url, gen[k].page>>)
       /\ \E status \in Statuses :
            IF status = 200
            THEN /\ gen' = [gen EXCEPT ![k].pc = "rows", ![k].params = params,
                                       ![k].data = Response(gen[k].url, params),
                                       ![k].i = 0]
                 /\ UNCHANGED <<pc, exc, active>>
            ELSE /\ gen' = [gen EXCEPT ![k].pc = "done", ![k].params = params]
                 /\ Abort("HTTPError", status)
    /\ UNCHANGED <<server, rq, State, persisted, loaded, schemas, emitted, row, subrow, entity, start,
                   last_updated, restarted, crashAfter, cursorWritten>>

\* lines 80-81: yield the next row of the page to the consumer
GenYield(k) ==
    /\ active = k
    /\ gen[k].pc = "rows"
    /\ gen[k].i < Len(gen[k].data)
    /\ gen' = [gen EXCEPT ![k].i = gen[k].i + 1]
    /\ IF k = 1
       THEN row' = gen[k].data[gen[k].i + 1] /\ UNCHANGED subrow
       ELSE subrow' = gen[k].data[gen[k].i + 1] /\ UNCHANGED row
    /\ active' = 0
    /\ UNCHANGED <<server, rq, State, persisted, loaded, schemas, emitted, reqs, pc, entity, start,
                   last_updated, exc, restarted, crashAfter, cursorWritten>>

\* GenAdvance with the cursor held in memory only: write_state left out
GenAdvanceNoWrite(k) ==
    /\ active = k
    /\ gen[k].pc = "rows"
    /\ gen[k].i = Len(gen[k].data)
    /\ Len(gen[k].data) = PER_PAGE
    /\ gen' = [gen EXCEPT ![k].pc = "request", ![k].page = gen[k].page + 1]
    /\ State' = Put(State, "page", gen[k].page + 1)
    /\ UNCHANGED <<server, rq, persisted, loaded, schemas, emitted, reqs, pc, active, row, subrow, entity,
                   start, last_updated, exc, restarted, crashAfter, cursorWritten>>

\* GenAdvance that asks for the full page again: page += 1 left out
GenAdvanceSamePage(k) ==
    /\ active = k
    /\ gen[k].pc = "rows"
    /\ gen[k].i = Len(gen[k].data)
    /\ Len(gen[k].data) = PER_PAGE
    /\ gen' = [gen EXCEPT ![k].pc = "request"]
    /\ State' = Put(State, "page", gen[k].page)
    /\ persisted' = State'
    /\ UNCHANGED <<server, rq, loaded, schemas, emitted, reqs, pc, active, row, subrow, entity, start,
                   last_updated, exc, restarted, crashAfter, cursorWritten>>

\* lines 83-86, a full page: page += 1; State['page'] = page; singer.write_state(State)
GenAdvance(k) ==
    /\ active = k
    /\ gen[k].pc = "rows"
    /\ gen[k].i = Len(gen[k].data)
    /\ Len(gen[k].data) = PER_PAGE
    /\ gen' = [gen EXCEPT ![k].pc = "request", ![k].page = gen[k].page + 1]
    /\ State' = Put(State, "page", gen[k].page + 1)
    /\ persisted' = State'
    /\ UNCHANGED <<server, rq, loaded, schemas, emitted, reqs, pc, active, row, subrow, entity, start,
                   last_updated, exc, restarted, crashAfter, cursorWritten>>

\* lines 87-91, a short or empty page: break; State.pop('page', None); then
\* `sincer.write_state(State)`: the name sincer is not defined, so the call
\* raises NameError before anything is written.  No caller catches NameError
\* (sync_tickets catches HTTPError only), so the run ends here.
GenFinish(k) ==
    /\ active = k
    /\ gen[k].pc = "rows"
    /\ gen[k].i = Len(gen[k].data)
    /\ Len(gen[k].data) # PER_PAGE
    /\ gen' = [gen EXCEPT ![k].pc = "done"]
    /\ State' = Pop(State, "page")
    /\ Abort("NameError", 0)
    /\ UNCHANGED <<server, rq, persisted, loaded, schemas, emitted, reqs, row, subrow, entity, start,
                   last_updated, restarted, crashAfter, cursorWritten>>

GenStep(k) == GenStart(k) \/ GenRequest(k) \/ GenYield(k) \/ GenAdvance(k) \/ GenFinish(k)

\* --------------------------------------------------------- persisted states
\* the documents a previous run can have left: a watermark for the stream or
\* none, a page cursor or none
LoadedPages == 2..(MaxFullPages + 1)

LoadedStates(ent) ==
    {EmptyDict} \cup {Put(EmptyDict, "page", p) : p \in LoadedPages}
        \cup {Put(EmptyDict, ent, START_DATE + 1)}
        \cup {Put(Put(EmptyDict, ent, START_DATE + 1), "page", p) : p \in LoadedPages}

\* ----------------------------------------- a consumer of gen_request alone
\* for row in gen_request(get_url(entity)): rows.append(row)
\* The rows are collected in the process's memory.

InitGen ==
    /\ \E n \in ListingSizes, base \in 0..MaxBase :
         server = [rows |-> n, base |-> base, tickets |-> 0]
    /\ entity \in {"groups"}
    /\ \E s \in LoadedStates(entity) :
         /\ State = s
         /\ persisted = s
         /\ loaded = s
    /\ schemas = <<>>
    /\ emitted = <<>>
    /\ reqs = <<>>
    /\ pc = "for"
    /\ active = 1
    /\ gen = [k \in 1..2 |-> IF k = 1 THEN NewGen(get_url(entity, 0, ""), EmptyDict)
                             ELSE NoGen]
    /\ row = NoRow
    /\ subrow = NoRow
    /\ start = 0
    /\ last_updated = 0
    /\ exc = NoExc
    /\ restarted = FALSE
    /\ crashAfter = 0
    /\ cursorWritten = FALSE
    /\ rq = NoCall

\* the loop body, then the loop asks the generator for the next row
Collect ==
    /\ active = 0
    /\ pc = "for"
    /\ emitted' = Append(emitted, row)
    /\ active' = 1
    /\ UNCHANGED <<server, rq, State, persisted, loaded, schemas, reqs, pc, gen, row, subrow, entity, start,
                   last_updated, exc, restarted, crashAfter, cursorWritten>>

\* the page whose rows have all been yielded while the next one is not yet
\* requested (0 when the generator is not there)
PageDone(k) ==
    IF gen[k].pc = "rows" /\ gen[k].i = PER_PAGE THEN gen[k].page
    ELSE IF gen[k].pc = "request" /\ reqs # <<>> THEN gen[k].page - 1
    ELSE 0

\* the process is killed and started again with the last persisted document;
\* what it held in memory is gone
RestartGen ==
    /\ ~restarted
    /\ restarted' = TRUE
    /\ crashAfter' = PageDone(1)
    /\ cursorWritten' = (gen[1].pc = "request" /\ reqs # <<>>)
    /\ State' = persisted
    /\ loaded' = persisted
    /\ emitted' = <<>>
    /\ reqs' = <<>>
    /\ active' = 1
    /\ gen' = [gen EXCEPT ![1] = NewGen(get_url(entity, 0, ""), EmptyDict)]
    /\ pc' = "for"
    /\ exc' = NoExc
    /\ UNCHANGED <<server, rq, persisted, schemas, row, subrow, entity, start, last_updated>>

NextGen == GenStep(1) \/ Collect \/ RestartGen

SpecGen == InitGen /\ [][NextGen]_vars

\* ------------------------------------------------------ the streams' syncs
\* get_start that seeds the watermark on every call: the test of line 67 left out
get_start_always(d, ent) == Put(d, ent, START_DATE)

\* get_start(entity), lines 66-70: the dict after the call (the value returned
\* is its entry for the entity)
get_start(d, ent) == IF ~Has(d, ent) THEN Put(d, ent, START_DATE) ELSE d

\* utils.update_state(STATE, entity, dt): the watermark moves up to dt
update_state(d, ent, dt) == Put(d, ent, Max(Get(d, ent, dt), dt))

\* a record as written to the sink: the stream, the parent ticket (0: none), the row
Rec(stream, ticket, r) ==
    [stream |-> stream, ticket |-> ticket, id |-> r.id, updated_at |-> r.updated_at]

\* sync_time_filtered, lines 157-161: schema, start, the listing's generator
\* is made and the for loop asks it for the first row
TfStart ==
    /\ active = 0
    /\ pc = "sync_time_filtered"
    /\ schemas' = Append(schemas, entity)
    /\ State' = get_start(State, entity)
    /\ start' = State'[entity]
    /\ gen' = [gen EXCEPT ![1] = NewGen(get_url(entity, 0, ""), EmptyDict)]
    /\ pc' = "tf_for"
    /\ active' = 1
    /\ UNCHANGED <<server, rq, persisted, loaded, emitted, reqs, row, subrow, entity,
                   last_updated, exc, restarted, crashAfter, cursorWritten>>

\* TfRow without line 167: the watermark moves in STATE only
TfRowNoWrite ==
    /\ active = 0
    /\ pc = "tf_for"
    /\ IF row.updated_at >= start
       THEN /\ State' = update_state(State, entity, row.updated_at)
            /\ pc' = "tf_write"
            /\ UNCHANGED <<active, persisted>>
       ELSE /\ active' = 1
            /\ UNCHANGED <<State, persisted, pc>>
    /\ UNCHANGED <<server, rq, loaded, schemas, emitted, reqs, gen, row, subrow, entity,
                   start, last_updated, exc, restarted, crashAfter, cursorWritten>>

\* lines 162-167: a row at or after start moves the watermark, which is
\* written out; an older row is passed over and the loop asks for the next
TfRow ==
    /\ active = 0
    /\ pc = "tf_for"
    /\ IF row.updated_at >= start
       THEN /\ State' = update_state(State, entity, row.updated_at)
            /\ persisted' = State'
            /\ pc' = "tf_write"
            /\ UNCHANGED active
       ELSE /\ active' = 1
            /\ UNCHANGED <<State, persisted, pc>>
    /\ UNCHANGED <<server, rq, loaded, schemas, emitted, reqs, gen, row, subrow, entity,
                   start, last_updated, exc, restarted, crashAfter, cursorWritten>>

\* line 168: the record is written; the loop asks for the next row
TfWrite ==
    /\ active = 0
    /\ pc = "tf_write"
    /\ emitted' = Append(emitted, Rec(entity, 0, row))
    /\ pc' = "tf_for"
    /\ active' = 1
    /\ UNCHANGED <<server, rq, State, persisted, loaded, schemas, reqs, gen, row, subrow,
                   entity, start, last_updated, exc, restarted, crashAfter,
                   cursorWritten>>

\* sync_tickets, lines 99-112: four schemas, start, params, last_updated; the
\* tickets generator is made and the for loop asks it for the first ticket
TkStart ==
    /\ active = 0
    /\ pc = "sync_tickets"
    /\ schemas' = schemas \o <<"tickets", "conversations", "satisfaction_ratings",
                               "time_entries">>
    /\ State' = get_start(State, "tickets")
    /\ start' = State'["tickets"]
    /\ last_updated' = start'
    /\ gen' = [gen EXCEPT ![1] =
                  NewGen(get_url("tickets", 0, ""),
                         [updated_since |-> start', order_by |-> "updated_at",
                          order_type |-> "asc"])]
    /\ pc' = "tk_for"
    /\ active' = 1
    /\ UNCHANGED <<server, rq, persisted, loaded, emitted, reqs, row, subrow, entity, exc,
                   restarted, crashAfter, cursorWritten>>

\* lines 113-119: a ticket; the generator of its conversations is made and
\* the inner for loop asks it for the first row
TkRow ==
    /\ active = 0
    /\ pc = "tk_for"
    /\ gen' = [gen EXCEPT ![2] =
                  NewGen(get_url("sub_ticket", row.id, "conversations"), EmptyDict)]
    /\ pc' = "tk_conversations"
    /\ active' = 2
    /\ UNCHANGED <<server, rq, State, persisted, loaded, schemas, emitted, reqs, row,
                   subrow, entity, start, last_updated, exc, restarted, crashAfter,
                   cursorWritten>>

\* TkConversation without the test of line 122
TkConversationNoFilter ==
    /\ active = 0
    /\ pc = "tk_conversations"
    /\ emitted' = Append(emitted, Rec("conversations", row.id, subrow))
    /\ active' = 2
    /\ UNCHANGED <<server, rq, State, persisted, loaded, schemas, reqs, pc, gen, row,
                   subrow, entity, start, last_updated, exc, restarted, crashAfter,
                   cursorWritten>>

\* lines 120-123: a conversation at or after start is written; the inner loop
\* asks for the next one.  The listing of the conversations ends in GenFinish,
\* whose NameError leaves sync_tickets: lines 125-153 never run.
TkConversation ==
    /\ active = 0
    /\ pc = "tk_conversations"
    /\ IF subrow.updated_at >= start
       THEN emitted' = Append(emitted, Rec("conversations", row.id, subrow))
       ELSE UNCHANGED emitted
    /\ active' = 2
    /\ UNCHANGED <<server, rq, State, persisted, loaded, schemas, reqs, pc, gen, row,
                   subrow, entity, start, last_updated, exc, restarted, crashAfter,
                   cursorWritten>>

\* one stream's sync called on its own: STREAMS[i].sync()
InitStream ==
    /\ entity \in StreamNames
    /\ \E n \in ListingSizes, base \in 0..MaxBase, t \in TicketCounts :
         /\ entity # "tickets" => t = 0
         /\ server = [rows |-> n, base |-> base, tickets |-> t]
    /\ \E s \in LoadedStates(entity) :
         /\ State = s
         /\ persisted = s
         /\ loaded = s
    /\ schemas = <<>>
    /\ emitted = <<>>
    /\ reqs = <<>>
    /\ pc = IF entity = "tickets" THEN "sync_tickets" ELSE "sync_time_filtered"
    /\ active = 0
    /\ gen = [k \in 1..2 |-> NoGen]
    /\ row = NoRow
    /\ subrow = NoRow
    /\ start = 0
    /\ last_updated = 0
    /\ exc = NoExc
    /\ restarted = FALSE
    /\ crashAfter = 0
    /\ cursorWritten = FALSE
    /\ rq = NoCall

NextStream ==
    \/ TfStart \/ TfRow \/ TfWrite
    \/ TkStart \/ TkRow \/ TkConversation
    \/ GenStep(1) \/ GenStep(2)

SpecStream == InitStream /\ [][NextStream]_vars

\* the process is killed while a stream's sync runs and started again with the
\* last persisted document; what was written to the sink stays written
RestartStream ==
    /\ ~restarted
    /\ pc # "aborted"
    /\ restarted' = TRUE
    /\ crashAfter' = PageDone(1)
    /\ cursorWritten' = (gen[1].pc = "request" /\ reqs # <<>>)
    /\ State' = persisted
    /\ loaded' = persisted
    /\ reqs' = <<>>
    /\ pc' = IF entity = "tickets" THEN "sync_tickets" ELSE "sync_time_filtered"
    /\ active' = 0
    /\ gen' = [k \in 1..2 |-> NoGen]
    /\ row' = NoRow
    /\ subrow' = NoRow
    /\ start' = 0
    /\ last_updated' = 0
    /\ UNCHANGED <<server, rq, persisted, schemas, emitted, entity, exc>>

\* sync_tickets from an empty STATE, with one kill and restart; the
\* conversations fill at most one page and a rest
InitCrash ==
    /\ InitStream
    /\ entity = "tickets"
    /\ server.tickets >= 1
    /\ server.rows <= PER_PAGE + MaxRest
    /\ loaded = EmptyDict

NextCrash ==
    \/ TkStart \/ TkRow \/ TkConversation
    \/ GenStep(1) \/ GenStep(2)
    \/ RestartStream

SpecCrash == InitCrash /\ [][NextCrash]_vars

\* ------------------------------------------------------------------ do_sync
\* the documents main can be started with: a marker or none, a page cursor or
\* none, a watermark for some of the streams
LoadedDocuments ==
    {[k \in W \cup M \cup P |->
         IF k = "active_stream" THEN m ELSE IF k = "page" THEN p ELSE START_DATE + 1] :
       W \in SUBSET StreamNames, M \in SUBSET {"active_stream"}, P \in SUBSET {"page"},
       m \in StreamNames, p \in LoadedPages}

\* main, lines 204-207: STATE.update(state); do_sync()
Init ==
    /\ \E n \in ListingSizes, base \in 0..MaxBase, t \in 0..MaxTickets :
         server = [rows |-> n, base |-> base, tickets |-> t]
    /\ \E s \in LoadedDocuments :
         /\ State = s
         /\ persisted = s
         /\ loaded = s
    /\ entity = ""
    /\ schemas = <<>>
    /\ emitted = <<>>
    /\ reqs = <<>>
    /\ pc = "do_sync"
    /\ active = 0
    /\ gen = [k \in 1..2 |-> NoGen]
    /\ row = NoRow
    /\ subrow = NoRow
    /\ start = 0
    /\ last_updated = 0
    /\ exc = NoExc
    /\ restarted = FALSE
    /\ crashAfter = 0
    /\ cursorWritten = FALSE
    /\ rq = NoCall

\* do_sync, lines 186-188: `for name, sync in STREAMS.items()`.  STREAMS is a
\* list, which has no attribute items: the for statement raises AttributeError
\* before its first iteration, and lines 189-200 never run.
DoSync ==
    /\ active = 0
    /\ pc = "do_sync"
    /\ Abort("AttributeError", 0)
    /\ UNCHANGED <<server, rq, State, persisted, loaded, schemas, emitted, reqs, gen, row,
                   subrow, entity, start, last_updated, restarted, crashAfter,
                   cursorWritten>>

Next == DoSync

Spec == Init /\ [][Next]_vars

\* ------------------------------------------------------------------ request
\* One call of request(url, params), step by step.  The name request is bound
\* to the function wrapped by backoff.on_exception (lines 39-43) around
\* utils.ratelimit (line 44, which only spaces the calls in time), so the call
\* in line 59 enters a new backoff loop with a try count of its own.
\* rq.stack holds one frame per call of request in progress, innermost last.

\* what session.send(req) brings (line 53): a response with a status and with
\* or without a Retry-After header, or no response at all (status 0: send
\* raises a transport error, a RequestException whose response is None)
Responses ==
    [status : Statuses, retry_after : BOOLEAN]
        \cup {[status |-> 0, retry_after |-> FALSE]}

NoResponse == [status |-> -1, retry_after |-> FALSE]

\* line 42: giveup=lambda e: e.response is not None and 400 <= status < 500
giveup_never(e) == FALSE

giveup(e) == e # 0 /\ 400 <= e /\ e < 500

\* request(url, params) called: the backoff loop has made no try yet
RecurseNextPage(f) ==
    [tries |-> 0, url |-> f.url,
     params |-> Put(f.params, "page", f.params["page"] + 1)]

Call(url, params) == [tries |-> 0, url |-> url, params |-> params]

\* line 59: return request(url, params), from the frame f
Recurse(f) == Call(f.url, f.params)

Top(stack) == stack[Len(stack)]

SetTop(stack, f) == [stack EXCEPT ![Len(stack)] = f]

\* backoff's loop makes one more try: lines 46-53 send the request; lines 55-59
\* sleep and call request again on Retry-After, line 61 raises for a 4xx or
\* 5xx status, line 63 returns the response through every frame
ReqSend ==
    /\ rq.pc = "try"
    /\ LET f == [Top(rq.stack) EXCEPT !.tries = @ + 1]
           sent == [rq EXCEPT !.stack = SetTop(rq.stack, f),
                              !.sent = @ \cup {<<f.url, f.params>>},
                              !.nsent = @ + 1]
       IN  \E r \in Responses :
             /\ r.retry_after => rq.throttled < MaxThrottles
             /\ rq' = IF r.retry_after
                      THEN [sent EXCEPT !.stack = Append(@, Recurse(f)),
                                        !.throttled = @ + 1,
                                        !.last = r]
                      ELSE IF r.status = 200
                      THEN [sent EXCEPT !.pc = "returned",
                                        !.result = Response(f.url, f.params),
                                        !.last = r]
                      ELSE [sent EXCEPT !.pc = "except",
                                        !.e = r.status,
                                        !.failed = IF r.status \in 400..499 THEN @ ELSE @ + 1,
                                        !.last = r]
    /\ UNCHANGED <<server, State, persisted, loaded, schemas, emitted, reqs, pc, active, gen,
                   row, subrow, entity, start, last_updated, exc, restarted, crashAfter,
                   cursorWritten>>

\* lines 39-43: the backoff loop of the innermost frame catches the exception;
\* it raises it again when giveup says so or the frame's tries are spent
\* (into line 59 of the frame below and so into that frame's loop, or to the
\* caller), and otherwise waits and tries again
ReqBackoff ==
    /\ rq.pc = "except"
    /\ rq' = IF giveup(rq.e) \/ Top(rq.stack).tries = max_tries
             THEN [rq EXCEPT !.stack = SubSeq(@, 1, Len(@) - 1),
                             !.pc = IF Len(rq.stack) = 1 THEN "raised" ELSE "except"]
             ELSE [rq EXCEPT !.pc = "try"]
    /\ UNCHANGED <<server, State, persisted, loaded, schemas, emitted, reqs, pc, active, gen,
                   row, subrow, entity, start, last_updated, exc, restarted, crashAfter,
                   cursorWritten>>

\* the pages a caller asks for
RequestPages == 1..(MaxFullPages + 1)

InitRequest ==
    /\ \E n \in ListingSizes, base \in 0..MaxBase :
         server = [rows |-> n, base |-> base, tickets |-> 0]
    /\ \E ent \in {STREAMS[Len(STREAMS)]}, p \in RequestPages :
         /\ entity = ent
         /\ rq = [pc |-> "try",
                  url |-> get_url(ent, 0, ""),
                  params |-> [page |-> p, per_page |-> PER_PAGE],
                  stack |-> <<Call(get_url(ent, 0, ""), [page |-> p, per_page |-> PER_PAGE])>>,
                  sent |-> {}, nsent |-> 0, throttled |-> 0, failed |-> 0,
                  last |-> NoResponse, result |-> <<>>, e |-> 0]
    /\ State = EmptyDict
    /\ persisted = EmptyDict
    /\ loaded = EmptyDict
    /\ schemas = <<>>
    /\ emitted = <<>>
    /\ reqs = <<>>
    /\ pc = "request"
    /\ active = 0
    /\ gen = [k \in 1..2 |-> NoGen]
    /\ row = NoRow
    /\ subrow = NoRow
    /\ start = 0
    /\ last_updated = 0
    /\ exc = NoExc
    /\ restarted = FALSE
    /\ crashAfter = 0
    /\ cursorWritten = FALSE

NextRequest == ReqSend \/ ReqBackoff

SpecRequest == InitRequest /\ [][NextRequest]_vars

\* ------------------------------------------------------------------ claims
IsPrefix(s, t) == Len(s) <= Len(t) /\ s = SubSeq(t, 1, Len(s))

\* the listing the consumer of generator 1 walks
Walked == Selected(gen[1].url, gen[1].params)

\* the generator ran to the end of its listing (no request failed)
ListingOver(k) == gen[k].pc = "done" /\ exc.type # "HTTPError"

\* C1: started with no persisted page cursor, gen_request yields the rows of
\* the listing in order, each once: what has been yielded is always a prefix
\* of the listing, and the whole listing once the last page is consumed.
C1_NoDupNoGap ==
    ~Has(loaded, "page") =>
        /\ IsPrefix(emitted, Walked)
        /\ ListingOver(1) => emitted = Walked

C1_Witness ==
    /\ ~Has(loaded, "page")
    /\ ListingOver(1)
    /\ Len(emitted) > PER_PAGE
    /\ emitted = Walked

\* C2: while the listing is in progress past a full page the persisted
\* document holds the next page number, and once the listing is over a document
\* without 'page' has been persisted and the listing has ended normally.
C2_CursorClearedAtEnd ==
    /\ (gen[1].pc \in {"request", "rows"} /\ gen[1].page > Get(loaded, "page", 1))
            => Get(persisted, "page", 0) = gen[1].page
    /\ ListingOver(1) => (~Has(persisted, "page") /\ exc = NoExc)

\* C3 as claimed: killed anywhere after all rows of page P were yielded and
\* before page P+1 is requested, the restarted run first requests page P+1.
C3_ResumeAtNextPage ==
    (restarted /\ crashAfter > 0 /\ reqs # <<>>) => reqs[1][2] = crashAfter + 1

\* C3 amended: the restarted run first requests page P+1 when the kill came
\* after the cursor write of lines 84-86 (which runs when the consumer asks
\* for the row after page P's last one), and page P again when it came before.
C3_ResumeAtPersistedPage ==
    (restarted /\ crashAfter > 0 /\ reqs # <<>>) =>
        reqs[1][2] = IF cursorWritten THEN crashAfter + 1 ELSE crashAfter

C3_Witness ==
    /\ restarted
    /\ cursorWritten
    /\ crashAfter = 1
    /\ reqs # <<>>
    /\ reqs[1][2] = 2


\* the records written so far, as a set
Written == {emitted[i] : i \in 1..Len(emitted)}

\* the run is over and no request of it failed
EndedUnfailed == pc = "aborted" /\ exc.type # "HTTPError"

\* what sync_tickets started from an empty STATE writes when nothing kills it
\* and no request fails: the conversations at or after start_date of the first
\* ticket; the listing of these ends in GenFinish, which ends the run
Uninterrupted ==
    LET tickets == Selected(get_url("tickets", 0, ""), [updated_since |-> START_DATE])
    IN  IF tickets = <<>> THEN {}
        ELSE {Rec("conversations", tickets[1].id, r) :
                r \in {x \in {Listing(server.rows, server.base)[i] : i \in 1..server.rows} :
                         x.updated_at >= START_DATE}}

\* Uninterrupted is what the unkilled run writes
UninterruptedIsWritten ==
    (entity = "tickets" /\ loaded = EmptyDict /\ ~restarted /\ EndedUnfailed)
        => Written = Uninterrupted

\* C4: after a kill and a restart from the persisted document, no record the
\* uninterrupted run would have written is missing from what the two runs
\* wrote, and at most one page of records was written twice.
C4_NothingSkipped ==
    (restarted /\ EndedUnfailed) =>
        /\ Uninterrupted \subseteq Written
        /\ Len(emitted) - Cardinality(Written) <= PER_PAGE

\* the watermark a document holds for a stream (-1: none, below every timestamp)
Watermark(d, s) == Get(d, s, -1)

\* C5: for every stream, the watermark in STATE never decreases in a step of
\* a run, a resumed run included, and neither does the persisted one.
C5_WatermarkMonotonic ==
    [][\A s \in StreamNames :
          /\ Watermark(State', s) >= Watermark(State, s)
          /\ Watermark(persisted', s) >= Watermark(persisted, s)]_vars

C5_Witness ==
    /\ Has(loaded, entity)
    /\ entity \in SimpleStreams
    /\ persisted[entity] > loaded[entity]
    /\ row.updated_at < persisted[entity]
    /\ row.updated_at >= start
    /\ pc = "tf_write"

\* the tickets the listing of this run serves
TicketsServed == Selected(get_url("tickets", 0, ""), [updated_since |-> start])

\* C6: a 403 from satisfaction_ratings or time_entries does not stop
\* sync_tickets: when the run is over and no request raised any other error,
\* the record of every ticket of the listing has been written; when a request
\* raised another error, the record of the ticket at hand has not.
C6_TicketsSurvive403 ==
    entity = "tickets" =>
        /\ (EndedUnfailed /\ ~Has(loaded, "page")) =>
              \A i \in 1..Len(TicketsServed) :
                  Rec("tickets", 0, TicketsServed[i]) \in Written
        /\ (pc = "aborted" /\ exc.type = "HTTPError" /\ exc.status # 403) =>
              Rec("tickets", 0, row) \notin Written

\* C7: no conversations, satisfaction_ratings or time_entries record written
\* in the run has an updated_at below the tickets watermark.
C7_NoStaleSubRecord ==
    \A i \in 1..Len(emitted) :
        emitted[i].stream \in SubEntities =>
            emitted[i].updated_at >= Get(State, "tickets", START_DATE)

C7_Witness ==
    /\ entity = "tickets"
    /\ Has(loaded, "tickets")
    /\ \E i \in 1..Len(emitted) : emitted[i].stream = "conversations"
    /\ \E j \in 1..gen[2].i : gen[2].data[j].updated_at < State["tickets"]
    /\ gen[2].page = 2

\* where do_sync starts in STREAMS: at the marked stream, or at the first
ResumePoint ==
    IF Has(loaded, "active_stream")
    THEN CHOOSE i \in 1..Len(STREAMS) : STREAMS[i] = loaded["active_stream"]
    ELSE 1

\* the streams whose sync has run, in order (each announces its schema first)
Synced == SelectSeq(schemas, LAMBDA n : n \in StreamNames)

\* C8: do_sync syncs the marked stream and every later one once, in list
\* order, and none before it; with no marker, all of them.
C8_SyncedFromMarker ==
    (pc = "aborted" /\ exc.type # "HTTPError") =>
        Synced = SubSeq(STREAMS, ResumePoint, Len(STREAMS))

\* C9: when no request fails, do_sync returns normally, and the last
\* persisted document then holds no active_stream marker.
C9_MarkerClearedOnReturn ==
    (pc = "aborted" /\ exc.type # "HTTPError") =>
        /\ exc = NoExc
        /\ ~Has(persisted, "active_stream")

\* the rows of the simple stream's listing
StreamRows == Listing(server.rows, server.base)

MaxUpdatedAt(rows) ==
    CHOOSE m \in {rows[i].updated_at : i \in 1..Len(rows)} :
        \A i \in 1..Len(rows) : rows[i].updated_at <= m

\* C10: one full page then one short page, every row at or after the loaded
\* watermark: every row is written once, the persisted watermark ends at the
\* greatest updated_at, and the persisted document ends without 'page'.
C10_TwoPagesSynced ==
    (/\ entity \in SimpleStreams
     /\ ~Has(loaded, "page")
     /\ server.rows > PER_PAGE
     /\ server.rows < 2 * PER_PAGE
     /\ \A i \in 1..server.rows : StreamRows[i].updated_at >= start
     /\ EndedUnfailed) =>
        /\ emitted = [i \in 1..server.rows |-> Rec(entity, 0, StreamRows[i])]
        /\ persisted[entity] = MaxUpdatedAt(StreamRows)
        /\ ~Has(persisted, "page")

\* C10 but for the page cursor: this much the code does
C10_AllWrittenWatermarkMax ==
    (/\ entity \in SimpleStreams
     /\ ~Has(loaded, "page")
     /\ server.rows > PER_PAGE
     /\ server.rows < 2 * PER_PAGE
     /\ \A i \in 1..server.rows : StreamRows[i].updated_at >= start
     /\ EndedUnfailed) =>
        /\ emitted = [i \in 1..server.rows |-> Rec(entity, 0, StreamRows[i])]
        /\ persisted[entity] = MaxUpdatedAt(StreamRows)

\* ---- C11
\* C11: a response with a Retry-After header makes request send the identical
\* request (same url, same params) again, however many such responses came
\* before; the call never ends on such a response, and what it returns is the
\* body of the one response without the header, once.
C11_ThrottledReissued ==
    rq.pc # "none" =>
        /\ rq.sent \subseteq {<<rq.url, rq.params>>}
        /\ rq.last.retry_after => rq.pc = "try"
        /\ rq.pc = "returned" =>
             /\ rq.last = [status |-> 200, retry_after |-> FALSE]
             /\ rq.result = Response(rq.url, rq.params)

\* C11 witness: the call returned a non-empty body after every Retry-After
\* response the model gives, with no other failure
C11_Witness ==
    /\ rq.pc = "returned"
    /\ rq.throttled = MaxThrottles
    /\ rq.nsent = MaxThrottles + 1
    /\ rq.failed = 0
    /\ Len(rq.result) > 0

\* ---- C12
\* a 4xx status
ClientError(s) == 400 <= s /\ s < 500

\* C12: in a call whose responses carry no Retry-After header, a 4xx response
\* is never followed by another attempt and its error is raised to the caller,
\* while a transport error or a 5xx response is tried again until a response
\* succeeds or max_tries attempts have failed, and then the error is raised.
C12_RetryPolicy ==
    (rq.pc # "none" /\ rq.throttled = 0) =>
        /\ rq.failed <= max_tries
        /\ ClientError(rq.last.status) =>
             /\ rq.pc \in {"except", "raised"}
             /\ rq.e = rq.last.status
        /\ rq.pc = "raised" =>
             /\ rq.e = rq.last.status
             /\ ClientError(rq.e) \/ rq.failed = max_tries
             /\ rq.nsent = rq.failed + (IF ClientError(rq.e) THEN 1 ELSE 0)
        /\ (rq.pc = "try" /\ rq.nsent > 0) =>
             /\ ~ClientError(rq.last.status)
             /\ rq.failed < max_tries
        /\ rq.pc = "returned" => rq.failed < max_tries

\* C12 witness: five attempts failed on a 5xx status, none was throttled, and
\* the error reached the caller
C12_Witness ==
    /\ rq.pc = "raised"
    /\ rq.throttled = 0
    /\ rq.failed = max_tries
    /\ rq.nsent = max_tries
    /\ rq.e = 500

\* ---- C20
\* C20: one call of request from a caller sees at most max_tries failed
\* attempts (transport error or 5xx) in all, however many Retry-After
\* responses come in between.
C20_BudgetPerCall == rq.pc # "none" => rq.failed <= max_tries

\* what the code does keep: each frame of request makes at most max_tries
\* tries, and the call in line 59 starts a frame with a budget of its own
C20_BudgetPerFrame ==
    rq.pc # "none" =>
        \A i \in 1..Len(rq.stack) : rq.stack[i].tries <= max_tries

\* ---- C13
\* C13: the record of a ticket is written after its sub-resource listings are
\* over: no conversations, satisfaction_ratings or time_entries record of a
\* ticket follows that ticket's record, and once the listings of the ticket at
\* hand have ended with no request failed, the last record written is the
\* ticket's.
C13_TicketAfterSubRecords ==
    entity = "tickets" =>
        /\ \A i, j \in 1..Len(emitted) :
               (i < j /\ emitted[i].stream = "tickets" /\ emitted[j].stream \in SubEntities)
                   => emitted[j].ticket # emitted[i].id
        /\ (EndedUnfailed /\ row # NoRow) =>
               /\ emitted # <<>>
               /\ emitted[Len(emitted)] = Rec("tickets", 0, row)

\* ---- C14
\* the greatest updated_at of the tickets the listing serves, or start
LastTicketUpdatedAt ==
    IF TicketsServed = <<>> THEN start ELSE Max(start, MaxUpdatedAt(TicketsServed))

\* what holds of the first half of C14: every document the sync of the tickets
\* persists carries the tickets watermark the run started from
C14_WatermarkHeldDuringListing ==
    (entity = "tickets" /\ pc # "sync_tickets") =>
        /\ State["tickets"] = start
        /\ start = Get(loaded, "tickets", START_DATE)
        /\ persisted # loaded => (Has(persisted, "tickets") /\ persisted["tickets"] = start)

\* C14: while the tickets listing is in progress every persisted document
\* holds the tickets watermark the run started from, and when the listing is
\* over (no request failed) the persisted watermark is the greatest updated_at
\* of the tickets.
C14_WatermarkAfterListing ==
    (entity = "tickets" /\ pc # "sync_tickets") =>
        /\ pc # "aborted" =>
              (persisted # loaded => (Has(persisted, "tickets") /\ persisted["tickets"] = start))
        /\ (EndedUnfailed /\ ~Has(loaded, "page") /\ TicketsServed # <<>>) =>
              /\ Has(persisted, "tickets")
              /\ persisted["tickets"] = LastTicketUpdatedAt

\* ---- C16
\* a generator is about to send a request (line 79)
AtRequest == \E k \in 1..2 : active = k /\ gen[k].pc = "request"

\* C16: whenever a request is sent, the last persisted document equals STATE.
C16_PersistedAtRequest == AtRequest => persisted = State

\* C16, amended: whenever a request is sent, the last persisted document equals
\* STATE but for the watermark of the stream at hand when get_start has just
\* seeded it with start_date, which is in STATE only.
C16_PersistedAtRequestButSeed ==
    AtRequest =>
        /\ DOMAIN persisted \subseteq DOMAIN State
        /\ \A k \in DOMAIN State :
               \/ k \in DOMAIN persisted /\ persisted[k] = State[k]
               \/ k = entity /\ k \notin DOMAIN persisted /\ State[k] = START_DATE

\* C16 witness: page 2 of a simple stream is about to be requested; the
\* watermark moved by the rows of page 1 and the cursor are both persisted
C16_Witness ==
    /\ AtRequest
    /\ entity \in SimpleStreams
    /\ ~Has(loaded, "page")
    /\ gen[1].page = 2
    /\ State[entity] > start
    /\ persisted = State

\* ---- C17
\* the updated_at of the records of the stream written so far, and of the
\* record about to be written (line 168)
EmittedUpdatedAt ==
    {emitted[i].updated_at : i \in 1..Len(emitted)}
        \cup (IF pc = "tf_write" THEN {row.updated_at} ELSE {})

\* C17: in sync_time_filtered the persisted watermark is max(W, updated_at)
\* over the records written so far, the one about to be written included: it
\* is at least the updated_at of each, and equals one of them or the start.
C17_WatermarkCoversEmitted ==
    (entity \in SimpleStreams /\ EmittedUpdatedAt # {}) =>
        /\ Has(persisted, entity)
        /\ \A u \in EmittedUpdatedAt : persisted[entity] >= u
        /\ persisted[entity] \in EmittedUpdatedAt \cup {start}
        /\ persisted[entity] = State[entity]

\* C17 witness: two records written, the watermark moved past the start and
\* past an earlier record
C17_Witness ==
    /\ entity \in SimpleStreams
    /\ Len(emitted) >= 2
    /\ Has(persisted, entity)
    /\ persisted[entity] > start
    /\ \E i \in 1..Len(emitted) : emitted[i].updated_at < persisted[entity]
    /\ emitted[Len(emitted)].updated_at < persisted[entity]

\* ---- C18
\* the requests of the run for a listing nested in a ticket
SubRequests == SelectSeq(reqs, LAMBDA r : r[1][1] = "sub_ticket")

C19_NestedLeavesCursor ==
    (/\ entity = "tickets"
     /\ gen[1].pc = "rows"
     /\ gen[1].page > 1
     /\ gen[2].pc = "done"
     /\ exc.type = "NameError")
        => (Has(persisted, "page") /\ persisted["page"] = gen[1].page)

====
